---- MODULE Spec2Model ----
(***************************************************************************)
(* downscale_tiles.py: builds the lower zoom levels of an XYZ tile pyramid *)
(* by merging 2x2 blocks of tiles of level z+1 into one tile of level z.   *)
(*                                                                         *)
(* The file system is the tree tiles_dir/<zoom>/<x>/<y>.<ext>:             *)
(*   dirs   the zoom levels whose directory tiles_dir/<zoom> exists        *)
(*   roots  the entries directly under a zoom directory                    *)
(*   files  the files inside the x-directories, with what an image library *)
(*          finds in them                                                  *)
(* Names are sequences of one-character strings, so that int() and str()   *)
(* are computed digit by digit.                                            *)
(*                                                                         *)
(* Environment that is modelled: arbitrary listing order of os.listdir,    *)
(* names that do not parse, names that parse to the same number, files     *)
(* that do not decode, an x-directory that cannot be created because a     *)
(* regular file has its name.  Not modelled: a zoom directory that is not  *)
(* a directory or cannot be listed or created, a full disk, signals.       *)
(***************************************************************************)
EXTENDS Integers, Sequences, FiniteSets, TLC

MaxZoom == 3
MaxWorkers == 2
MaxEntries == 3
MaxScan == 2
MaxGroup == 2

VARIABLES
  source_zoom,    \* args.source_zoom
  dest_zoom_min,  \* args.dest_zoom_min
  workers,        \* args.workers
  dirs, roots, files,
  pc,             \* position of the main process
  current_zoom,   \* loop variable of create_lower_zoom_tiles
  tiles,          \* list of (x, y, path) of the current scan
  target_tiles,   \* the dict of groups, in insertion order
  futures,        \* per group: state of its create_tile call, and what it raised
  next,           \* position of the running for-loop over target_tiles / futures
  log,            \* the records the logging module has emitted (INFO and above)
  exitcode,       \* exit status of the process, -1 while running
  started,        \* history: the levels whose iteration has begun, in order
  canvas          \* history: per saved output path, the 2Sx2S canvas before the final resize

vars == <<source_zoom, dest_zoom_min, workers, dirs, roots, files, pc, current_zoom,
          tiles, target_tiles, futures, next, log, exitcode, started, canvas>>

-----------------------------------------------------------------------------
(* int() and str() on names *)

Digits == <<"0", "1", "2", "3", "4", "5", "6", "7", "8", "9">>

DigitChars == {Digits[i] : i \in 1..Len(Digits)}

DigitVal(c) == (CHOOSE i \in 1..Len(Digits) : Digits[i] = c) - 1

RECURSIVE NatVal(_)
NatVal(s) ==
  IF s = <<>> THEN 0
  ELSE 10 * NatVal(SubSeq(s, 1, Len(s) - 1)) + DigitVal(s[Len(s)])

Signed(s) == s # <<>> /\ s[1] \in {"-", "+"}

Body(s) == IF Signed(s) THEN Tail(s) ELSE s

\* int(s) does not raise ValueError (over the alphabet of digits, signs and letters)
IsInt(s) == Body(s) # <<>> /\ \A i \in 1..Len(Body(s)) : Body(s)[i] \in DigitChars

int(s) == IF Signed(s) /\ s[1] = "-" THEN 0 - NatVal(Body(s)) ELSE NatVal(Body(s))

RECURSIVE NatStr(_)
NatStr(n) ==
  IF n < 10 THEN <<Digits[n + 1]>>
  ELSE NatStr(n \div 10) \o <<Digits[(n % 10) + 1]>>

str(n) == IF n < 0 THEN <<"-">> \o NatStr(0 - n) ELSE NatStr(n)

-----------------------------------------------------------------------------
(* helpers *)

Range(s) == {s[i] : i \in DOMAIN s}

\* the orders in which os.listdir may return the entries S
RECURSIVE Perms(_)
Perms(S) ==
  IF S = {} THEN {<<>>}
  ELSE UNION {{<<x>> \o p : p \in Perms(S \ {x})} : x \in S}

RECURSIVE UpTo(_, _)
UpTo(C, k) ==
  IF k = 0 THEN {{}}
  ELSE LET prev == UpTo(C, k - 1) IN prev \cup {T \cup {c} : T \in prev, c \in C}

Warning(msg, about) == [lvl |-> "warning", msg |-> msg, about |-> about]

Error(msg, about) == [lvl |-> "error", msg |-> msg, about |-> about]

Info(msg, about) == [lvl |-> "info", msg |-> msg, about |-> about]

-----------------------------------------------------------------------------
(* create_tile *)

TileSize == 256

Offsets == {<<ox, oy>> : ox \in {0, TileSize}, oy \in {0, TileSize}}

\* where merged.paste puts quadrants[i]
PasteOffset(i) ==
  CASE i = 0 -> <<0, 0>>
    [] i = 1 -> <<TileSize, 0>>
    [] i = 2 -> <<0, TileSize>>
    [] i = 3 -> <<TileSize, TileSize>>

QuadrantTransposed(x, y) == (y % 2) + ((x % 2) * 2)

Quadrant(x, y) == (x % 2) + ((y % 2) * 2)

OutputPathByY(z, target_x, target_y) ==
  [z |-> z, xd |-> str(target_y), stem |-> str(target_y), ext |-> ".png"]

\* the output path os.path.join(target_dir, str(target_x), f"{target_y}.png")
OutputPath(z, target_x, target_y) ==
  [z |-> z, xd |-> str(target_x), stem |-> str(target_y), ext |-> ".png"]

\* os.makedirs(target_x_dir, exist_ok=True) raises FileExistsError when the name is a regular file
MakedirsRaises(z, name) == [z |-> z, name |-> name, isdir |-> FALSE] \in roots

\* the try block: Image.open reads the header only; convert() decodes the pixel data,
\* and is called only when the mode is not RGBA
OpenRaises(p) ==
  \/ files[p].st = "badheader"
  \/ files[p].mode # "RGBA" /\ files[p].st = "badbody"

\* an image kept without having been decoded raises when resize or paste loads it
LoadRaises(p) == files[p].st = "badbody"

RECURSIVE LoadQuadrants(_, _)
LoadQuadrants(source_tiles, quadrants) ==
  IF source_tiles = <<>> THEN quadrants
  ELSE LET t == Head(source_tiles)
           quadrant == Quadrant(t[1], t[2])
       IN  LoadQuadrants(Tail(source_tiles),
             IF OpenRaises(t[3]) THEN quadrants
             ELSE [quadrants EXCEPT ![quadrant] = {t[3]}])

DecodeWarnings(source_tiles) ==
  {Warning("decode_failed", t[3]) : t \in {u \in Range(source_tiles) : OpenRaises(u[3])}}

\* slots that the transparent filler Image.new('RGBA', (tile_size, tile_size)) fills
Missing(quadrants) == {i \in 0..3 : quadrants[i] = {}}

FillerSize == TileSize

\* slots whose image is not tile_size x tile_size
OddSlots(quadrants) ==
  {i \in 0..3 : \/ quadrants[i] # {} /\ \E p \in quadrants[i] : ~files[p].std
                \/ quadrants[i] = {} /\ FillerSize # TileSize}

\* slots whose image raises when its pixel data is loaded
BadSlots(quadrants) == {i \in 0..3 : \E p \in quadrants[i] : LoadRaises(p)}

\* the resize loop stops at the first odd slot that raises
ResizeStop(quadrants) ==
  LET S == OddSlots(quadrants) \cap BadSlots(quadrants)
  IN  IF S = {} THEN 4 ELSE CHOOSE i \in S : \A j \in S : i <= j

ResizeWarnings(quadrants) ==
  {Warning("resize", i) : i \in {j \in OddSlots(quadrants) : j <= ResizeStop(quadrants)}}

\* the slot whose image raises first: in the resize loop, else in the pastes
FirstBad(quadrants) ==
  IF ResizeStop(quadrants) < 4 THEN ResizeStop(quadrants)
  ELSE CHOOSE i \in BadSlots(quadrants) : \A j \in BadSlots(quadrants) : i <= j

\* Result of one call: what it raised (or "none"), what it logged, and on success the
\* output path and the canvas before the final resize.
create_tile(source_tiles, target_x, target_y, z) ==
  LET out == OutputPath(z, target_x, target_y)
      quadrants == LoadQuadrants(source_tiles, [i \in 0..3 |-> {}])
      bad == BadSlots(quadrants)
  IN  IF MakedirsRaises(z, str(target_x))
      THEN [raised |-> [exc |-> "FileExistsError", at |-> <<z, str(target_x)>>],
            mkdir |-> FALSE, logs |-> {}, out |-> out, merged |-> [o \in Offsets |-> {}]]
      ELSE IF bad # {}
      THEN [raised |-> [exc |-> "OSError", at |-> FirstBad(quadrants)],
            mkdir |-> TRUE,
            logs |-> DecodeWarnings(source_tiles) \cup ResizeWarnings(quadrants),
            out |-> out, merged |-> [o \in Offsets |-> {}]]
      ELSE [raised |-> [exc |-> "none", at |-> <<>>],
            mkdir |-> TRUE,
            logs |-> DecodeWarnings(source_tiles) \cup ResizeWarnings(quadrants),
            out |-> out,
            merged |-> [o \in Offsets |-> quadrants[CHOOSE i \in 0..3 : PasteOffset(i) = o]]]

Raised(r) == r.raised.exc # "none"

\* the decoded tile merged.save writes
SavedImage == [st |-> "ok", mode |-> "RGBA", std |-> TRUE]

\* file system after the call
RootsAfter(r, z) ==
  IF r.mkdir THEN roots \cup {[z |-> z, name |-> r.out.xd, isdir |-> TRUE]} ELSE roots

FilesAfter(r) ==
  IF Raised(r) THEN files
  ELSE [p \in DOMAIN files \cup {r.out} |-> IF p = r.out THEN SavedImage ELSE files[p]]

CanvasAfter(r) ==
  IF Raised(r) THEN canvas
  ELSE [p \in DOMAIN canvas \cup {r.out} |-> IF p = r.out THEN r.merged ELSE canvas[p]]

-----------------------------------------------------------------------------
(* the scan and the grouping of create_lower_zoom_tiles *)

ImageExts == {".jpg", ".png"}

\* os.listdir(source_dir)
listdir(z) == {e \in roots : e.z = z}

FilesAt(z) == {p \in DOMAIN files : p.z = z}

\* os.listdir(x_dir_path), in the order the listing order fo gives
ListX(z, xd, fo) == SelectSeq(fo, LAMBDA p : p.z = z /\ p.xd = xd)

FileName(p) == p.stem \o <<p.ext>>

Concat(a, b) == [tiles |-> a.tiles \o b.tiles, log |-> a.log \cup b.log]

\* the listing of an x-directory abandoned at the first name that does not parse
RECURSIVE ScanFilesAbandoning(_, _)
ScanFilesAbandoning(x, y_files) ==
  IF y_files = <<>> THEN [tiles |-> <<>>, log |-> {}]
  ELSE LET p == Head(y_files)
           rest == ScanFilesAbandoning(x, Tail(y_files))
       IN  IF p.ext \notin {".jpg", ".png"} THEN rest
           ELSE IF IsInt(p.stem)
           THEN [tiles |-> <<<<x, int(p.stem), p>>>> \o rest.tiles, log |-> rest.log]
           ELSE [tiles |-> <<>>, log |-> {Warning("bad_file", p.stem \o <<p.ext>>)}]

RECURSIVE ScanFiles(_, _)
ScanFiles(x, y_files) ==
  IF y_files = <<>> THEN [tiles |-> <<>>, log |-> {}]
  ELSE LET p == Head(y_files)
           rest == ScanFiles(x, Tail(y_files))
       IN  IF p.ext \notin ImageExts THEN rest
           ELSE IF IsInt(p.stem)
           THEN Concat([tiles |-> <<<<x, int(p.stem), p>>>>, log |-> {}], rest)
           ELSE Concat([tiles |-> <<>>, log |-> {Warning("bad_file", FileName(p))}], rest)

RECURSIVE ScanDirs(_, _)
ScanDirs(x_dirs, fo) ==
  IF x_dirs = <<>> THEN [tiles |-> <<>>, log |-> {}]
  ELSE LET e == Head(x_dirs)
           rest == ScanDirs(Tail(x_dirs), fo)
       IN  IF ~e.isdir THEN rest
           ELSE IF IsInt(e.name)
           THEN Concat(ScanFiles(int(e.name), ListX(e.z, e.name, fo)), rest)
           ELSE Concat([tiles |-> <<>>, log |-> {Warning("bad_dir", e.name)}], rest)

NoTilesIgnored(ts) == FALSE

\* `if not tiles`
NoTiles(ts) == ts = <<>>

TargetKey(x, y) == <<x \div 2, y \div 2>>

InsertOverwriting(acc, key, t) ==
  LET idx == {i \in DOMAIN acc : acc[i].key = key}
  IN  IF idx = {} THEN Append(acc, [key |-> key, src |-> <<t>>])
      ELSE [acc EXCEPT ![CHOOSE i \in idx : TRUE].src = <<t>>]

Insert(acc, key, t) ==
  LET idx == {i \in DOMAIN acc : acc[i].key = key}
  IN  IF idx = {} THEN Append(acc, [key |-> key, src |-> <<t>>])
      ELSE [acc EXCEPT ![CHOOSE i \in idx : TRUE].src = Append(@, t)]

RECURSIVE GroupTiles(_, _)
GroupTiles(ts, acc) ==
  IF ts = <<>> THEN acc
  ELSE GroupTiles(Tail(ts), Insert(acc, TargetKey(Head(ts)[1], Head(ts)[2]), Head(ts)))

-----------------------------------------------------------------------------
(* the level loop *)

\* range(source_zoom - 1, dest_zoom_min - 1, -1)
RangeStart == source_zoom - 1

InRangeExclusive(z) == z > dest_zoom_min

InRange(z) == z > dest_zoom_min - 1

RangeStepSkipping(z) == z - 2

RangeStep(z) == z - 1

Done == {"ok", "failed"}

NewFuture == [state |-> "new", e |-> [exc |-> "none", at |-> <<>>]]

\* future.result() returns or raises only once the call has finished
ResultReady(f) == f.state \in Done

Outcome(r) == [state |-> IF Raised(r) THEN "failed" ELSE "ok", e |-> r.raised]

TaskAt(i, z) ==
  create_tile(target_tiles[i].src, target_tiles[i].key[1], target_tiles[i].key[2], z)

Task(i) == TaskAt(i, current_zoom)

\* `except Exception` catches what create_tile and future.result() raise
ExceptionClasses == {"FileExistsError", "OSError"}

CaughtValueErrorOnly(e) == e.exc = "ValueError"

Caught(e) == e.exc \in ExceptionClasses

\* logging.error in the sequential loop names the tile, in the gathering loop it does not
SeqError(key, e) == Error("tile_error", <<key, e>>)

PoolError(e) == Error("tile_error", <<e>>)

FatalExit == 1

\* the source directory does not exist: FileNotFoundError, sys.exit(1)
SourceMissing ==
  /\ pc = "loop" /\ InRange(current_zoom)
  /\ current_zoom + 1 \notin dirs
  /\ dirs' = dirs \cup {current_zoom}
  /\ started' = Append(started, current_zoom)
  /\ log' = log \cup {Error("source_missing", current_zoom + 1)}
  /\ exitcode' = FatalExit
  /\ pc' = "exit"
  /\ UNCHANGED <<source_zoom, dest_zoom_min, workers, roots, files, current_zoom,
                 tiles, target_tiles, futures, next, canvas>>

\* the scan found no tile: sys.exit(1)
NoTilesAtLevel ==
  /\ pc = "loop" /\ InRange(current_zoom)
  /\ current_zoom + 1 \in dirs
  /\ \E ro \in Perms(listdir(current_zoom + 1)), fo \in Perms(FilesAt(current_zoom + 1)) :
       LET scan == ScanDirs(ro, fo)
       IN  /\ NoTiles(scan.tiles)
           /\ tiles' = scan.tiles
           /\ log' = log \cup scan.log \cup {Error("no_tiles", current_zoom + 1)}
  /\ dirs' = dirs \cup {current_zoom}
  /\ started' = Append(started, current_zoom)
  /\ exitcode' = FatalExit
  /\ pc' = "exit"
  /\ UNCHANGED <<source_zoom, dest_zoom_min, workers, roots, files, current_zoom,
                 target_tiles, futures, next, canvas>>

\* the scan found tiles: group them and enter the sequential or the pooled branch
ScanLevel ==
  /\ pc = "loop" /\ InRange(current_zoom)
  /\ current_zoom + 1 \in dirs
  /\ \E ro \in Perms(listdir(current_zoom + 1)), fo \in Perms(FilesAt(current_zoom + 1)) :
       LET scan == ScanDirs(ro, fo)
       IN  /\ ~NoTiles(scan.tiles)
           /\ tiles' = scan.tiles
           /\ target_tiles' = GroupTiles(scan.tiles, <<>>)
           /\ log' = log \cup scan.log
  /\ futures' = [i \in DOMAIN target_tiles' |-> NewFuture]
  /\ next' = 1
  /\ dirs' = dirs \cup {current_zoom}
  /\ started' = Append(started, current_zoom)
  /\ pc' = IF workers > 1 THEN "submit" ELSE "seq"
  /\ UNCHANGED <<source_zoom, dest_zoom_min, workers, roots, files, current_zoom,
                 exitcode, canvas>>

\* one iteration of the sequential loop: create_tile inside try/except Exception
SeqTile ==
  /\ pc = "seq" /\ next <= Len(target_tiles)
  /\ LET r == Task(next)
     IN  /\ roots' = RootsAfter(r, current_zoom)
         /\ files' = FilesAfter(r)
         /\ canvas' = CanvasAfter(r)
         /\ futures' = [futures EXCEPT ![next] = Outcome(r)]
         /\ IF Raised(r) /\ ~Caught(r.raised)
            THEN log' = log \cup r.logs /\ pc' = "exit" /\ exitcode' = 1 /\ next' = next
            ELSE /\ log' = log \cup r.logs \cup
                           (IF Raised(r) THEN {SeqError(target_tiles[next].key, r.raised)} ELSE {})
                 /\ pc' = pc /\ exitcode' = exitcode /\ next' = next + 1
  /\ UNCHANGED <<source_zoom, dest_zoom_min, workers, dirs, current_zoom,
                 tiles, target_tiles, started>>

\* executor.submit of one group; after the last one the gathering loop begins
Submit ==
  /\ pc = "submit" /\ next <= Len(target_tiles)
  /\ futures' = [futures EXCEPT ![next].state = "pending"]
  /\ IF next = Len(target_tiles)
     THEN pc' = "gather" /\ next' = 1
     ELSE pc' = pc /\ next' = next + 1
  /\ UNCHANGED <<source_zoom, dest_zoom_min, workers, dirs, roots, files, current_zoom,
                 tiles, target_tiles, log, exitcode, started, canvas>>

Running == {i \in DOMAIN futures : futures[i].state = "running"}

\* a free worker process takes a submitted call
WorkerStart(i) ==
  /\ pc \in {"submit", "gather"}
  /\ futures[i].state = "pending"
  /\ Cardinality(Running) < workers
  /\ futures' = [futures EXCEPT ![i].state = "running"]
  /\ UNCHANGED <<source_zoom, dest_zoom_min, workers, dirs, roots, files, pc, current_zoom,
                 tiles, target_tiles, next, log, exitcode, started, canvas>>

\* the worker process runs create_tile to its end
WorkerFinish(i) ==
  /\ pc \in {"submit", "gather"}
  /\ futures[i].state = "running"
  /\ LET r == Task(i)
     IN  /\ roots' = RootsAfter(r, current_zoom)
         /\ files' = FilesAfter(r)
         /\ canvas' = CanvasAfter(r)
         /\ futures' = [futures EXCEPT ![i] = Outcome(r)]
         /\ log' = log \cup r.logs
  /\ UNCHANGED <<source_zoom, dest_zoom_min, workers, dirs, pc, current_zoom,
                 tiles, target_tiles, next, exitcode, started>>

\* one iteration of `for future in futures`: future.result() inside try/except Exception
Gather ==
  /\ pc = "gather" /\ next <= Len(futures)
  /\ ResultReady(futures[next])
  /\ IF futures[next].state = "failed" /\ ~Caught(futures[next].e)
     THEN log' = log /\ pc' = "exit" /\ exitcode' = 1 /\ next' = next
     ELSE /\ log' = log \cup (IF futures[next].state = "failed"
                               THEN {PoolError(futures[next].e)} ELSE {})
          /\ pc' = pc /\ exitcode' = exitcode /\ next' = next + 1
  /\ UNCHANGED <<source_zoom, dest_zoom_min, workers, dirs, roots, files, current_zoom,
                 tiles, target_tiles, futures, started, canvas>>

\* leaving the with block is executor.shutdown(wait=True)
ShutdownWait == \A i \in DOMAIN futures : futures[i].state \in Done

\* end of one iteration of the level loop
EndLevel ==
  /\ \/ pc = "seq"
     \/ pc = "gather" /\ ShutdownWait
  /\ next > Len(target_tiles)
  /\ log' = log \cup {Info("level_done", current_zoom)}
  /\ current_zoom' = RangeStep(current_zoom)
  /\ pc' = "loop"
  /\ UNCHANGED <<source_zoom, dest_zoom_min, workers, dirs, roots, files,
                 tiles, target_tiles, futures, next, exitcode, started, canvas>>

\* the loop is exhausted: main logs the summary and the process exits 0
Finish ==
  /\ pc = "loop" /\ ~InRange(current_zoom)
  /\ log' = log \cup {Info("all_done", <<>>)}
  /\ exitcode' = 0
  /\ pc' = "exit"
  /\ UNCHANGED <<source_zoom, dest_zoom_min, workers, dirs, roots, files, current_zoom,
                 tiles, target_tiles, futures, next, started, canvas>>

Next ==
  \/ SourceMissing
  \/ NoTilesAtLevel
  \/ ScanLevel
  \/ SeqTile
  \/ Submit
  \/ \E i \in DOMAIN futures : WorkerStart(i)
  \/ \E i \in DOMAIN futures : WorkerFinish(i)
  \/ Gather
  \/ EndLevel
  \/ Finish

-----------------------------------------------------------------------------
(* initial trees *)

Img(st, mode, std) == [st |-> st, mode |-> mode, std |-> std]

TileFile(z, xd, stem, ext, img) ==
  [kind |-> "file", z |-> z, xd |-> xd, stem |-> stem, ext |-> ext, img |-> img]

RootFile(z, name) ==
  [kind |-> "rootfile", z |-> z, xd |-> name, stem |-> <<>>, ext |-> "", img |-> Img("ok", "RGBA", TRUE)]

PathOf(c) == [z |-> c.z, xd |-> c.xd, stem |-> c.stem, ext |-> c.ext]

\* the tree that holds the entries T
TreeDirs(T) == {c.z : c \in T}

TreeRoots(T) == {[z |-> c.z, name |-> c.xd, isdir |-> c.kind = "file"] : c \in T}

TreeFiles(T) ==
  LET F == {c \in T : c.kind = "file"}
  IN  [p \in {PathOf(c) : c \in F} |-> (CHOOSE c \in F : PathOf(c) = p).img]

UniquePaths(T) == \A c, d \in T : PathOf(c) = PathOf(d) => c = d

\* Tiles of the source level of the pyramid runs.
SourceCands(z) ==
  { TileFile(z, <<"0">>, <<"0">>, ".png", Img("ok", "RGBA", TRUE)),
    TileFile(z, <<"2">>, <<"0">>, ".png", Img("ok", "RGBA", TRUE)),
    TileFile(z, <<"2">>, <<"2">>, ".png", Img("ok", "RGBA", TRUE)),
    TileFile(z, <<"0">>, <<"1">>, ".jpg", Img("badheader", "RGB", TRUE)),
    TileFile(z, <<"1">>, <<"0">>, ".png", Img("badbody", "RGBA", TRUE)),
    TileFile(z, <<"0">>, <<"0">>, ".jpg", Img("ok", "RGB", TRUE)) }

\* A regular file named 0 under a lower zoom directory: the x-directory 0 cannot be created.
Blockers(z) == {RootFile(lv, <<"0">>) : lv \in 0..(z - 1)}

InitRun ==
  /\ pc = "loop"
  /\ current_zoom = RangeStart
  /\ tiles = <<>>
  /\ target_tiles = <<>>
  /\ futures = <<>>
  /\ next = 1
  /\ log = {}
  /\ exitcode = -1
  /\ started = <<>>
  /\ canvas = [p \in {} |-> {}]

Init ==
  /\ source_zoom \in 1..MaxZoom
  /\ dest_zoom_min \in 0..MaxZoom
  /\ workers \in 1..MaxWorkers
  /\ \E srcdir \in BOOLEAN :
     \E T \in UpTo((IF srcdir THEN SourceCands(source_zoom) ELSE {}) \cup Blockers(source_zoom),
                   MaxEntries) :
       /\ dirs = TreeDirs(T) \cup (IF srcdir THEN {source_zoom} ELSE {})
       /\ roots = TreeRoots(T)
       /\ files = TreeFiles(T)
  /\ InitRun

Spec == Init /\ [][Next]_vars

\* Trees of one level over a richer set of names; every image decodes.
ScanCands(z) ==
  {TileFile(z, xd, stem, ext, Img("ok", IF ext = ".png" THEN "RGBA" ELSE "RGB", TRUE)) :
     xd \in {<<"0">>, <<"1">>, <<"0", "1">>, <<"2">>}, stem \in {<<"0">>, <<"1">>},
     ext \in {".png", ".jpg"}}
  \cup
  { TileFile(z, <<"0">>, <<"a">>, ".png", Img("ok", "RGBA", TRUE)),
    TileFile(z, <<"a">>, <<"0">>, ".png", Img("ok", "RGBA", TRUE)),
    TileFile(z, <<"a">>, <<"a">>, ".png", Img("ok", "RGBA", TRUE)),
    TileFile(z, <<"0">>, <<"0">>, ".txt", Img("ok", "RGBA", TRUE)),
    TileFile(z, <<"-", "1">>, <<"1">>, ".png", Img("ok", "RGBA", TRUE)),
    RootFile(z, <<"b">>) }

\* Trees of one level over a richer set of image files: what Image.open finds.
TileImages ==
  { <<".png", Img("ok", "RGBA", TRUE)>>, <<".png", Img("ok", "RGBA", FALSE)>>,
    <<".png", Img("badheader", "RGBA", TRUE)>>, <<".png", Img("badbody", "RGBA", TRUE)>>,
    <<".png", Img("badbody", "RGBA", FALSE)>>,
    <<".jpg", Img("ok", "RGB", TRUE)>>, <<".jpg", Img("ok", "RGB", FALSE)>>,
    <<".jpg", Img("badheader", "RGB", TRUE)>>, <<".jpg", Img("badbody", "RGB", TRUE)>> }

TileCands(z) ==
  {TileFile(z, xd, stem, ei[1], ei[2]) :
     xd \in {<<"0">>, <<"1">>}, stem \in {<<"0">>, <<"1">>}, ei \in TileImages}
  \cup {RootFile(z - 1, <<"0">>)}

\* a run of one level with one worker over the tree T
InitLevel(T, srcdir) ==
  /\ source_zoom = 1
  /\ dest_zoom_min = 0
  /\ workers = 1
  /\ dirs = TreeDirs(T) \cup (IF srcdir THEN {source_zoom} ELSE {})
  /\ roots = TreeRoots(T)
  /\ files = TreeFiles(T)
  /\ InitRun

InitScan ==
  \E srcdir \in BOOLEAN :
    \E T \in {U \in UpTo(IF srcdir THEN ScanCands(1) ELSE {}, MaxScan) : UniquePaths(U)} :
      InitLevel(T, srcdir)

InitTile ==
  \E srcdir \in BOOLEAN :
    \E T \in {U \in UpTo(IF srcdir THEN TileCands(1) ELSE {}, MaxGroup) : UniquePaths(U)} :
      InitLevel(T, srcdir)

\* the steps of a run with workers = 1
NextSeq ==
  \/ SourceMissing
  \/ NoTilesAtLevel
  \/ ScanLevel
  \/ SeqTile
  \/ EndLevel
  \/ Finish

SpecScan == InitScan /\ [][NextSeq]_vars

SpecTile == InitTile /\ [][NextSeq]_vars

-----------------------------------------------------------------------------
(* properties of the pyramid runs *)

Last(s) == s[Len(s)]

\* the tiles a directory tree holds at level z, whatever the listing order
ValidTilesAt(z) ==
  {<<int(p.xd), int(p.stem), p>> :
     p \in {q \in FilesAt(z) : IsInt(q.xd) /\ q.ext \in ImageExts /\ IsInt(q.stem)}}

\* level z cannot be built: its source directory is missing or holds no usable tile
SourceUnusable(z) == z + 1 \notin dirs \/ ValidTilesAt(z + 1) = {}

LevelCount == IF source_zoom > dest_zoom_min THEN source_zoom - dest_zoom_min ELSE 0

TileErrors == {l \in log : l.lvl = "error" /\ l.msg = "tile_error"}

\* C1: the levels are begun in the order source_zoom-1, source_zoom-2, ..., each once and
\* none below dest_zoom_min; a run that ends normally has begun all of them; and a level
\* is begun (its scan of the level above runs) only when every create_tile call of the
\* level before it, sequential or pooled, has finished, having succeeded or failed.
C1_LevelsInOrder ==
  /\ [](/\ \A i \in DOMAIN started :
             started[i] = source_zoom - i /\ started[i] >= dest_zoom_min
        /\ (pc = "exit" /\ exitcode = 0) => Len(started) = LevelCount)
  /\ [][started' # started => (\A i \in DOMAIN futures : futures[i].state \in Done)]_vars

C1_Witness ==
  /\ workers > 1 /\ pc = "gather"
  /\ Len(started) >= 2
  /\ TileErrors # {}
  /\ \E p \in DOMAIN canvas : p.z = started[1]

\* C2: once a level z is begun whose source directory is missing or holds no valid tile,
\* the run has ended with a non-zero exit status, z is the last level begun, no file exists
\* under level z or below, and every tile saved for the levels before it is still there.
C2_FatalStopsRun ==
  \A i \in DOMAIN started :
    SourceUnusable(started[i]) =>
      /\ pc = "exit" /\ exitcode # 0
      /\ i = Len(started)
      /\ {p \in DOMAIN files : p.z <= started[i]} = {}
      /\ \A p \in DOMAIN canvas : p \in DOMAIN files /\ p.z > started[i]

C2_Witness ==
  /\ pc = "exit" /\ exitcode # 0
  /\ Len(started) >= 2
  /\ [lvl |-> "error", msg |-> "no_tiles", about |-> Last(started) + 1] \in log
  /\ DOMAIN canvas # {}

\* C3: a create_tile call that fails is logged as an error, every group of the level is
\* still attempted (each call ends as succeeded or failed before the level ends), and the
\* task phase is left only by ending the level, never by ending the run; with one worker
\* and with several.
C3_FailureAbsorbed ==
  /\ [](\A i \in DOMAIN futures :
          (pc \in {"loop", "exit"} \/ (pc \in {"seq", "gather"} /\ i < next)) =>
            /\ futures[i].state \in Done
            /\ futures[i].state = "failed" =>
                 \E l \in TileErrors :
                   l.about = <<futures[i].e>> \/ l.about = <<target_tiles[i].key, futures[i].e>>)
  /\ [][(pc \in {"seq", "submit", "gather"}) =>
          (pc' \in {"seq", "submit", "gather", "loop"} /\ exitcode' = exitcode)]_vars

C3_Witness ==
  /\ pc = "loop" /\ exitcode = -1
  /\ \E i, j \in DOMAIN futures :
       i < j /\ futures[i].state = "failed" /\ futures[j].state = "ok"

C7_SameOutput ==
  (pc = "loop" /\ started # <<>>) =>
    LET z == Last(started)
        ok == {i \in DOMAIN target_tiles : ~Raised(TaskAt(i, z))}
    IN  /\ FilesAt(z) = {TaskAt(i, z).out : i \in ok}
        /\ \A i \in ok : canvas[TaskAt(i, z).out] = TaskAt(i, z).merged
        /\ \A i \in DOMAIN futures : futures[i].state = "ok" <=> i \in ok

C7_Witness ==
  /\ workers > 1 /\ pc = "loop" /\ started # <<>>
  /\ Cardinality(FilesAt(Last(started))) >= 2
  /\ \E i \in DOMAIN futures : futures[i].state = "failed"

-----------------------------------------------------------------------------
(* properties of the scan, the grouping and create_tile *)

\* the level whose directory the last scan read
Scanned == Last(started) + 1

KeyOf(t) == <<t[1] \div 2, t[2] \div 2>>

SlotOf(t) == (t[1] % 2) + 2 * (t[2] % 2)

SlotOffset(i) == <<(i % 2) * TileSize, (i \div 2) * TileSize>>

Decodes(t) == files[t[3]].st = "ok"

DistinctCoords(src) ==
  \A a, b \in DOMAIN src : a # b => <<src[a][1], src[a][2]>> # <<src[b][1], src[b][2]>>

OutOf(i) == OutputPath(Last(started), target_tiles[i].key[1], target_tiles[i].key[2])

NameWarnings == {l \in log : l.msg \in {"bad_dir", "bad_file"}}

\* C8: after a scan that found tiles, every scanned tile is in exactly one group, once, and
\* that group has the key (x div 2, y div 2); there are as many groups as distinct keys; and
\* the groups, as sets of tiles per key, are those of the set of valid tiles of the
\* directory tree, so the listing order does not enter.
C8_Grouping ==
  tiles # <<>> =>
    /\ \A i \in DOMAIN tiles :
         /\ Cardinality({g \in DOMAIN target_tiles : tiles[i] \in Range(target_tiles[g].src)}) = 1
         /\ \A g \in DOMAIN target_tiles :
              tiles[i] \in Range(target_tiles[g].src) =>
                /\ target_tiles[g].key = KeyOf(tiles[i])
                /\ Cardinality({j \in DOMAIN target_tiles[g].src :
                                  target_tiles[g].src[j] = tiles[i]}) = 1
    /\ \A g \in DOMAIN target_tiles : Range(target_tiles[g].src) \subseteq Range(tiles)
    /\ Len(target_tiles) = Cardinality({KeyOf(t) : t \in Range(tiles)})
    /\ {[key |-> g.key, members |-> Range(g.src)] : g \in Range(target_tiles)}
         = {[key |-> k, members |-> {t \in ValidTilesAt(Scanned) : KeyOf(t) = k}] :
              k \in {KeyOf(t) : t \in ValidTilesAt(Scanned)}}

C8_Witness ==
  /\ pc = "seq" /\ next = 1
  /\ Len(target_tiles) >= 1
  /\ \E g \in DOMAIN target_tiles :
       Len(target_tiles[g].src) >= 2 /\ DistinctCoords(target_tiles[g].src)

\* C9 (as claimed): every group handed to create_tile holds at most 4 source tiles, and no
\* two of its members have the same quadrant index (x mod 2) + 2*(y mod 2).
C9_AtMostOnePerSlot ==
  \A g \in DOMAIN target_tiles :
    /\ Len(target_tiles[g].src) <= 4
    /\ \A a, b \in DOMAIN target_tiles[g].src :
         a # b => SlotOf(target_tiles[g].src[a]) # SlotOf(target_tiles[g].src[b])

\* C6 (as claimed): after the scan of a level, every entry under the zoom root whose name is
\* not an integer, and every .jpg/.png file whose stem is not an integer, has a warning in
\* the log and is in no group, and the tiles collected are all the valid tiles of the tree.
C6_EveryBadNameWarned ==
  (started # <<>> /\ Scanned \in dirs) =>
    /\ \A e \in listdir(Scanned) :
         ~IsInt(e.name) =>
           /\ Warning("bad_dir", e.name) \in log
           /\ \A t \in Range(tiles) : t[3].xd # e.name
    /\ \A p \in FilesAt(Scanned) :
         (p.ext \in {".jpg", ".png"} /\ ~IsInt(p.stem)) =>
           /\ Warning("bad_file", FileName(p)) \in log
           /\ \A t \in Range(tiles) : t[3] # p
    /\ Range(tiles) = ValidTilesAt(Scanned)

\* C6 (amended): after the scan of a level, every sub-directory of the zoom root whose name
\* is not an integer, and every .jpg/.png file in an integer-named sub-directory whose stem
\* is not an integer, has a warning in the log and is in no group; these are the only
\* warnings about names (an entry that is not a directory, and a file inside a skipped
\* directory, get none); the tiles collected are all the valid tiles of the tree, each is in
\* a group, and every group has been attempted when the level ends.
C6_BadNamesSkipped ==
  (started # <<>> /\ Scanned \in dirs) =>
    /\ NameWarnings =
         {Warning("bad_dir", e.name) : e \in {d \in listdir(Scanned) : d.isdir /\ ~IsInt(d.name)}}
         \cup
         {Warning("bad_file", FileName(p)) :
            p \in {q \in FilesAt(Scanned) :
                     IsInt(q.xd) /\ q.ext \in {".jpg", ".png"} /\ ~IsInt(q.stem)}}
    /\ \A t \in Range(tiles) : IsInt(t[3].xd) /\ IsInt(t[3].stem)
    /\ Range(tiles) = ValidTilesAt(Scanned)
    /\ tiles # <<>> =>
         /\ \A t \in Range(tiles) : \E g \in DOMAIN target_tiles : t \in Range(target_tiles[g].src)
         /\ \A g \in DOMAIN target_tiles : \A t \in Range(target_tiles[g].src) : t \in Range(tiles)
         /\ pc \in {"loop", "exit"} => \A i \in DOMAIN futures : futures[i].state \in Done

C6_Witness ==
  /\ pc = "loop" /\ started # <<>>
  /\ \E p \in FilesAt(Scanned) :
       /\ IsInt(p.xd) /\ p.ext = ".png" /\ ~IsInt(p.stem)
       /\ Warning("bad_file", FileName(p)) \in log
       /\ \E i \in DOMAIN target_tiles :
            /\ futures[i].state = "ok"
            /\ \E t \in Range(target_tiles[i].src) : t[3].xd = p.xd

\* C5 (as claimed): a create_tile call whose x-directory can be created and whose group has
\* a member that does not decode succeeds and saves its tile; each such member has a
\* warning in the log and is not on the canvas.
C5_DecodeFailureAbsorbed ==
  \A i \in DOMAIN futures :
    ( /\ futures[i].state \in Done
      /\ ~MakedirsRaises(Last(started), str(target_tiles[i].key[1]))
      /\ \E t \in Range(target_tiles[i].src) : ~Decodes(t) ) =>
        /\ futures[i].state = "ok"
        /\ OutOf(i) \in DOMAIN files
        /\ \A t \in Range(target_tiles[i].src) :
             ~Decodes(t) =>
               /\ Warning("decode_failed", t[3]) \in log
               /\ canvas[OutOf(i)][SlotOffset(SlotOf(t))] # {t[3]}

\* C10 (as claimed, on groups whose members have distinct coordinates): the canvas of a
\* saved tile holds every member (x, y) of its group at the offset of slot
\* (x mod 2) + 2*(y mod 2), a slot without member is transparent, and create_tile logs no
\* warning about a slot without member.
C10_EveryMemberOnCanvas ==
  \A i \in DOMAIN futures :
    (futures[i].state = "ok" /\ DistinctCoords(target_tiles[i].src)) =>
      /\ \A t \in Range(target_tiles[i].src) :
           canvas[OutOf(i)][SlotOffset(SlotOf(t))] = {t[3]}
      /\ \A q \in 0..3 :
           (\A t \in Range(target_tiles[i].src) : SlotOf(t) # q) =>
             /\ canvas[OutOf(i)][SlotOffset(q)] = {}
             /\ Warning("resize", q) \notin TaskAt(i, Last(started)).logs

\* the member of slot q that create_tile keeps: the last one in the group that decodes
LastDecoded(src, q) ==
  LET D == {j \in DOMAIN src : SlotOf(src[j]) = q /\ Decodes(src[j])}
  IN  IF D = {} THEN {} ELSE {src[CHOOSE j \in D : \A k \in D : k <= j][3]}

\* C10 (amended): the canvas of a saved tile holds at the offset of slot i the member of
\* its group with index i that decoded (the last one in the group when several do), and is
\* transparent there when the group has no member of index i or none of them decoded; the
\* warnings create_tile logs are about members of the group, none about an absent one.
C10_DecodedMembersOnCanvas ==
  \A i \in DOMAIN futures :
    futures[i].state = "ok" =>
      /\ \A q \in 0..3 :
           canvas[OutOf(i)][SlotOffset(q)] = LastDecoded(target_tiles[i].src, q)
      /\ \A l \in TaskAt(i, Last(started)).logs :
           /\ l.msg = "resize" =>
                \E t \in Range(target_tiles[i].src) : SlotOf(t) = l.about /\ Decodes(t)
           /\ l.msg = "decode_failed" =>
                \E t \in Range(target_tiles[i].src) : t[3] = l.about /\ ~Decodes(t)

C10_Witness ==
  \E i \in DOMAIN futures :
    /\ futures[i].state = "ok"
    /\ DistinctCoords(target_tiles[i].src)
    /\ \E t, u \in Range(target_tiles[i].src) :
         /\ Decodes(t) /\ ~Decodes(u)
         /\ canvas[OutOf(i)][SlotOffset(SlotOf(t))] = {t[3]}
         /\ canvas[OutOf(i)][SlotOffset(SlotOf(u))] = {}

====
